---- MODULE Spec2Model ----
(* Model of SEN_HACKER.py: the ZSDIC PAK extractor and repacker.            *)
(* Byte buffers are sequences of integers 0..255; offsets are 0-based as in *)
(* the Python source, and Slice(data, a, b) is data[a:b].                   *)
EXTENDS Integers, Sequences, FiniteSets, TLC

VARIABLES
    pak,            \* ORIGINAL_PAK: the archive file in INPUT_DIR
    dictFile,       \* DICT_FILE: the external dictionary file in DICT_DIR
    unpackDir,      \* numbers n for which UNPACK_DIR holds <n>.dat
    backup,         \* the copy of the archive in BACKUP_DIR
    repacked,       \* repacked_pak: the copy of the archive in REPACK_DIR
    pc,             \* position in unpack_zsdic / repack_zsdic
    result,         \* the panel the operation ended with
    dict_data,      \* the resolved dictionary bytes
    tasks,          \* unpack: state of the future of every segment
    results,        \* unpack: the result lines the main thread has printed
    writes,         \* unpack: which task wrote which artifact path
    files,          \* repack: sorted list of the edits' sequence numbers
    fileIdx,        \* repack: position of the for loop in files
    plain,          \* repack: content of the current input_file
    segment_start,  \* repack: range returned by extract_segment
    segment_end,
    compression_level,
    outcomes,       \* repack: one record per console line of the loop
    success_count

vars == <<pak, dictFile, unpackDir, backup, repacked, pc, result, dict_data,
          tasks, results, writes, files, fileIdx, plain, segment_start, segment_end,
          compression_level, outcomes, success_count>>

----------------------------------------------------------------------------
(* Program constants *)

MAGIC_NUMBER == <<40, 181, 47, 253>>
DICT_START_HEX == <<55, 164, 48, 236>>
MAX_COMPRESSION_LEVEL == 22
MAX_WORKERS == 4

----------------------------------------------------------------------------
(* Bounds of the model *)

MaxChunks == 3
MaxFiles == 2
MaxSeq == 3

\* pieces an archive is assembled from
ChunkSet == {MAGIC_NUMBER, DICT_START_HEX, <<65>>, <<65, 65, 65, 65>>}

RECURSIVE ChunkSeqs(_)
ChunkSeqs(n) ==
    IF n = 0 THEN {<<>>}
    ELSE LET shorter == ChunkSeqs(n - 1)
         IN  shorter \cup {s \o c : s \in shorter, c \in ChunkSet}

Archives == ChunkSeqs(MaxChunks)

\* pieces of the buffers the unpack pipeline alone is run on: the marker, its
\* two halves, a payload byte and a zero byte
MaxIndexChunks == 4
IndexChunkSet == {MAGIC_NUMBER, <<40, 181>>, <<47, 253>>, <<65>>, <<0>>}

RECURSIVE IndexChunkSeqs(_)
IndexChunkSeqs(n) ==
    IF n = 0 THEN {<<>>}
    ELSE LET shorter == IndexChunkSeqs(n - 1)
         IN  shorter \cup {s \o c : s \in shorter, c \in IndexChunkSet}

IndexBuffers == IndexChunkSeqs(MaxIndexChunks)

\* sequence numbers a .dat file name can carry
SeqNums == -1 .. MaxSeq

\* A plaintext file is described by what the codec makes of it: the frame
\* produced below level `at` and the frame produced from level `at` on.
\* Every frame starts with the zstd frame magic.
FrameA == MAGIC_NUMBER
FrameB == MAGIC_NUMBER \o <<66>>
FrameM == MAGIC_NUMBER \o MAGIC_NUMBER
FrameL == MAGIC_NUMBER \o <<66, 66, 66, 66, 66>>
\* a frame whose body holds the bytes of the dictionary marker
FrameD == MAGIC_NUMBER \o <<66>> \o DICT_START_HEX

Plaintexts ==
    { [low |-> FrameB, high |-> FrameB, at |-> 1],
      [low |-> FrameL, high |-> FrameA, at |-> 2],
      [low |-> FrameL, high |-> FrameB, at |-> MAX_COMPRESSION_LEVEL],
      [low |-> FrameD, high |-> FrameD, at |-> 1],
      [low |-> FrameM, high |-> FrameM, at |-> 1] }

NoPlain == [low |-> <<>>, high |-> <<>>, at |-> 0]

----------------------------------------------------------------------------
(* Files and byte buffers *)

NoFile == [exists |-> FALSE, data |-> <<>>]
File(d) == [exists |-> TRUE, data |-> d]

NoDict == [path |-> FALSE, readable |-> FALSE, data |-> <<>>]
DictFiles ==
    { NoDict,
      [path |-> TRUE, readable |-> FALSE, data |-> <<>>],
      [path |-> TRUE, readable |-> TRUE, data |-> <<>>],
      [path |-> TRUE, readable |-> TRUE, data |-> <<68, 68>>] }

Min(S) == CHOOSE x \in S : \A y \in S : x <= y
Max2(a, b) == IF a >= b THEN a ELSE b

\* data[a:b]
Slice(data, a, b) ==
    LET hi == IF b > Len(data) THEN Len(data) ELSE b
    IN  IF a >= hi THEN <<>> ELSE SubSeq(data, a + 1, hi)

\* data.find(sub, start)
find(data, sub, start) ==
    LET hits == {i \in start .. (Len(data) - Len(sub)) :
                    Slice(data, i, i + Len(sub)) = sub}
    IN  IF hits = {} THEN -1 ELSE Min(hits)

Zeros(n) == [i \in 1 .. n |-> 0]

\* f.seek(pos); f.write(bytes) on a file opened 'rb+'
WriteAt(data, pos, bytes) ==
    [i \in 1 .. Max2(Len(data), pos + Len(bytes)) |->
        IF i > pos /\ i <= pos + Len(bytes) THEN bytes[i - pos]
        ELSE IF i <= Len(data) THEN data[i]
        ELSE 0]

\* list[i] with Python's negative indices
PyIndex(list, i) == IF i < 0 THEN list[Len(list) + i + 1] ELSE list[i + 1]

----------------------------------------------------------------------------
(* Dictionary Resolver *)

\* load_dictionary: the file's bytes, or an exception
load_dictionary(df) ==
    IF ~df.path THEN [ok |-> FALSE, data |-> <<>>]
    ELSE IF ~df.readable THEN [ok |-> FALSE, data |-> <<>>]
    ELSE [ok |-> TRUE, data |-> df.data]

extract_dictionary_from_pak(data, start_hex) ==
    LET dict_start == find(data, start_hex, 0)
    IN  IF dict_start = -1 THEN [ok |-> FALSE, data |-> <<>>]
        ELSE [ok |-> TRUE, data |-> Slice(data, dict_start, Len(data))]

\* try: load_dictionary() except: extract_dictionary_from_pak(...)
ResolveDictionary(df, data) ==
    LET ext == load_dictionary(df)
    IN  IF ext.ok THEN ext
        ELSE extract_dictionary_from_pak(data, DICT_START_HEX)

----------------------------------------------------------------------------
(* Segment Indexer *)

\* the scan with the cursor moved one byte too far after a match
RECURSIVE ScanSplitSkip(_, _, _, _)
ScanSplitSkip(data, magic_number, start, split_indices) ==
    LET p == find(data, magic_number, start)
    IN  IF p = -1 THEN Append(split_indices, Len(data))
        ELSE ScanSplitSkip(data, magic_number, p + Len(magic_number) + 1,
                           Append(split_indices, p))

RECURSIVE ScanSplit(_, _, _, _)
ScanSplit(data, magic_number, start, split_indices) ==
    LET p == find(data, magic_number, start)
    IN  IF p = -1 THEN Append(split_indices, Len(data))
        ELSE ScanSplit(data, magic_number, p + Len(magic_number),
                       Append(split_indices, p))

split_segments(data, magic_number) ==
    LET split_indices == ScanSplit(data, magic_number, 0, <<>>)
    IN  [i \in 1 .. Len(split_indices) - 1 |->
            <<i, Slice(data, split_indices[i], split_indices[i + 1])>>]

\* extract_segment's scan with the cursor moved one byte too far after a match
RECURSIVE ScanExtractSkip(_, _, _, _)
ScanExtractSkip(data, magic_number, start, split_indices) ==
    LET p == find(data, magic_number, start)
    IN  IF p = -1 THEN Append(split_indices, Len(data))
        ELSE ScanExtractSkip(data, magic_number, p + Len(magic_number) + 1,
                             Append(split_indices, p))

RECURSIVE ScanExtract(_, _, _, _)
ScanExtract(data, magic_number, start, split_indices) ==
    LET p == find(data, magic_number, start)
    IN  IF p = -1 THEN Append(split_indices, Len(data))
        ELSE ScanExtract(data, magic_number, p + Len(magic_number),
                         Append(split_indices, p))

\* extract_segment with the lower bound of the range check off by one
extract_segment_neg(data, segment_index, magic_number) ==
    LET split_indices == ScanExtract(data, magic_number, 0, <<>>)
    IN  IF segment_index < 0 \/ segment_index > Len(split_indices) - 1
        THEN [ok |-> FALSE, start |-> 0, end |-> 0, data |-> <<>>]
        ELSE LET s == PyIndex(split_indices, segment_index - 1)
                 e == PyIndex(split_indices, segment_index)
             IN  [ok |-> TRUE, start |-> s, end |-> e,
                  data |-> Slice(data, s, e)]

extract_segment(data, segment_index, magic_number) ==
    LET split_indices == ScanExtract(data, magic_number, 0, <<>>)
    IN  IF segment_index < 1 \/ segment_index > Len(split_indices) - 1
        THEN [ok |-> FALSE, start |-> 0, end |-> 0, data |-> <<>>]
        ELSE LET s == PyIndex(split_indices, segment_index - 1)
                 e == PyIndex(split_indices, segment_index)
             IN  [ok |-> TRUE, start |-> s, end |-> e,
                  data |-> Slice(data, s, e)]

----------------------------------------------------------------------------
(* Codec and patch writer *)

\* compress_file: the codec's frame for the file's content at this level
compress_file(input, dictionary, level) ==
    IF level < input.at THEN input.low ELSE input.high

\* the frame alone, the rest of the range left as it was
PatchBytesUnpadded(segment_start_, segment_end_, compressed_data) ==
    compressed_data

\* the bytes replace_segment hands to f.write, in order
PatchBytes(segment_start_, segment_end_, compressed_data) ==
    LET original_segment_size == segment_end_ - segment_start_
    IN  IF Len(compressed_data) < original_segment_size
        THEN compressed_data \o Zeros(original_segment_size - Len(compressed_data))
        ELSE compressed_data

\* replace_segment without the zero fill
replace_segment_nopad(data, segment_start_, segment_end_, compressed_data) ==
    LET original_segment_size == segment_end_ - segment_start_
    IN  IF Len(compressed_data) > original_segment_size
        THEN [ok |-> FALSE, data |-> data]
        ELSE [ok |-> TRUE, data |-> WriteAt(data, segment_start_, compressed_data)]

\* replace_segment refusing a frame that fits exactly
replace_segment_strict(data, segment_start_, segment_end_, compressed_data) ==
    LET original_segment_size == segment_end_ - segment_start_
    IN  IF Len(compressed_data) >= original_segment_size
        THEN [ok |-> FALSE, data |-> data]
        ELSE [ok |-> TRUE,
              data |-> WriteAt(data, segment_start_,
                               PatchBytes(segment_start_, segment_end_,
                                          compressed_data))]

\* replace_segment without the size check
replace_segment_unchecked(data, segment_start_, segment_end_, compressed_data) ==
    [ok |-> TRUE,
     data |-> WriteAt(data, segment_start_,
                      PatchBytes(segment_start_, segment_end_, compressed_data))]

\* replace_segment filling with as many zeros as the segment is long
replace_segment_overpad(data, segment_start_, segment_end_, compressed_data) ==
    LET original_segment_size == segment_end_ - segment_start_
    IN  IF Len(compressed_data) > original_segment_size
        THEN [ok |-> FALSE, data |-> data]
        ELSE [ok |-> TRUE,
              data |-> WriteAt(data, segment_start_,
                               IF Len(compressed_data) < original_segment_size
                               THEN compressed_data \o Zeros(original_segment_size)
                               ELSE compressed_data)]

replace_segment(data, segment_start_, segment_end_, compressed_data) ==
    LET original_segment_size == segment_end_ - segment_start_
    IN  IF Len(compressed_data) > original_segment_size
        THEN [ok |-> FALSE, data |-> data]
        ELSE [ok |-> TRUE,
              data |-> WriteAt(data, segment_start_,
                               PatchBytes(segment_start_, segment_end_,
                                          compressed_data))]

----------------------------------------------------------------------------
(* Initial state: the directories as the user prepared them, nothing run yet *)

Init ==
    /\ pak \in {NoFile} \cup {File(d) : d \in Archives}
    /\ dictFile \in DictFiles
    /\ unpackDir \in {S \in SUBSET SeqNums : Cardinality(S) <= MaxFiles}
    /\ backup = NoFile
    /\ repacked = NoFile
    /\ pc = "menu"
    /\ result = "none"
    /\ dict_data = <<>>
    /\ tasks = <<>>
    /\ results = <<>>
    /\ writes = {}
    /\ files = <<>>
    /\ fileIdx = 0
    /\ plain = NoPlain
    /\ segment_start = 0
    /\ segment_end = 0
    /\ compression_level = 0
    /\ outcomes = <<>>
    /\ success_count = 0

envVars == <<pak, dictFile>>
repackVars == <<files, fileIdx, plain, segment_start, segment_end,
                compression_level, outcomes, success_count>>

----------------------------------------------------------------------------
(* unpack_zsdic *)

\* no archive detected: message and back to the menu
UnpackNoPak ==
    /\ pc = "menu"
    /\ ~pak.exists
    /\ pc' = "done"
    /\ result' = "UnpackNoPak"
    /\ UNCHANGED <<envVars, unpackDir, backup, repacked, dict_data, tasks,
                   results, writes, repackVars>>

\* makedirs, backup copy, read of the archive
UnpackBackup ==
    /\ pc = "menu"
    /\ pak.exists
    /\ backup' = File(pak.data)
    /\ pc' = "unpack_dict"
    /\ UNCHANGED <<envVars, unpackDir, repacked, result, dict_data, tasks,
                   results, writes, repackVars>>

\* dictionary resolution, split_segments, submission of one task per segment
UnpackLoadDict ==
    /\ pc = "unpack_dict"
    /\ LET d == ResolveDictionary(dictFile, pak.data)
           segments == split_segments(pak.data, MAGIC_NUMBER)
       IN  IF d.ok
           THEN /\ dict_data' = d.data
                /\ tasks' = [i \in 1 .. Len(segments) |-> "submitted"]
                /\ pc' = "unpack_tasks"
                /\ result' = result
           ELSE /\ pc' = "done"
                /\ result' = "UnpackFailed"
                /\ UNCHANGED <<dict_data, tasks>>
    /\ UNCHANGED <<envVars, unpackDir, backup, repacked, results, writes,
                   repackVars>>

\* decimal digits of n >= 0, most significant first
RECURSIVE Digits(_)
Digits(n) == IF n < 10 THEN <<n>> ELSE Digits(n \div 10) \o <<n % 10>>

\* f'{index:08d}.dat'
ArtifactName(index) ==
    LET d == Digits(index)
    IN  [stem |-> IF Len(d) >= 8 THEN d ELSE Zeros(8 - Len(d)) \o d,
         ext |-> "dat"]

\* int(file_name.split('.')[0])
RECURSIVE IntOfDigits(_)
IntOfDigits(d) ==
    IF d = <<>> THEN 0
    ELSE 10 * IntOfDigits(SubSeq(d, 1, Len(d) - 1)) + d[Len(d)]

sequence_number_of(file_name) == IntOfDigits(file_name.stem)

Running == {i \in DOMAIN tasks : tasks[i] = "running"}

\* the pool starting every queued task at once, whatever its width
StartTaskUnbounded(i) ==
    /\ pc = "unpack_tasks"
    /\ tasks[i] = "submitted"
    /\ \A j \in 1 .. (i - 1) : tasks[j] # "submitted"
    /\ tasks' = [tasks EXCEPT ![i] = "running"]
    /\ UNCHANGED <<envVars, unpackDir, backup, repacked, pc, result, dict_data,
                   results, writes, repackVars>>

\* a free worker of the pool takes the oldest queued task
StartTask(i) ==
    /\ pc = "unpack_tasks"
    /\ tasks[i] = "submitted"
    /\ \A j \in 1 .. (i - 1) : tasks[j] # "submitted"
    /\ Cardinality(Running) < MAX_WORKERS
    /\ tasks' = [tasks EXCEPT ![i] = "running"]
    /\ UNCHANGED <<envVars, unpackDir, backup, repacked, pc, result, dict_data,
                   results, writes, repackVars>>

\* decompress_segment of one running segment: the artifact is written, or
\* the codec raises and the error line is returned
DecompressSegment(i) ==
    /\ pc = "unpack_tasks"
    /\ tasks[i] = "running"
    /\ LET index == split_segments(pak.data, MAGIC_NUMBER)[i][1]
           output_file == ArtifactName(index)
       IN  \/ /\ tasks' = [tasks EXCEPT ![i] = "decompressed"]
              /\ unpackDir' = unpackDir \cup {sequence_number_of(output_file)}
              /\ writes' = writes \cup {[task |-> i, path |-> output_file]}
           \/ /\ tasks' = [tasks EXCEPT ![i] = "error"]
              /\ UNCHANGED <<unpackDir, writes>>
    /\ UNCHANGED <<envVars, backup, repacked, pc, result, dict_data, results,
                   repackVars>>

\* for future in futures: future.result() of the next future, once it is done
CollectResult ==
    /\ pc = "unpack_tasks"
    /\ Len(results) < Len(tasks)
    /\ LET j == Len(results) + 1
       IN  /\ tasks[j] \in {"decompressed", "error"}
           /\ results' = Append(results, [index |-> j, kind |-> tasks[j]])
    /\ UNCHANGED <<envVars, unpackDir, backup, repacked, pc, result, dict_data,
                   tasks, writes, repackVars>>

UnpackFinish ==
    /\ pc = "unpack_tasks"
    /\ Len(results) = Len(tasks)
    /\ pc' = "done"
    /\ result' = "UnpackCompleted"
    /\ UNCHANGED <<envVars, unpackDir, backup, repacked, dict_data, tasks,
                   results, writes, repackVars>>

----------------------------------------------------------------------------
(* repack_zsdic *)

RepackNoPak ==
    /\ pc = "menu"
    /\ ~pak.exists
    /\ pc' = "done"
    /\ result' = "RepackNoPak"
    /\ UNCHANGED <<envVars, unpackDir, backup, repacked, dict_data, tasks,
                   results, writes, repackVars>>

\* UNPACK_DIR is empty: message and back to the menu
RepackNoFiles ==
    /\ pc = "menu"
    /\ pak.exists
    /\ unpackDir = {}
    /\ pc' = "done"
    /\ result' = "RepackNoFiles"
    /\ UNCHANGED <<envVars, unpackDir, backup, repacked, dict_data, tasks,
                   results, writes, repackVars>>

\* shutil.copy(ORIGINAL_PAK, repacked_pak)
RepackCopy ==
    /\ pc = "menu"
    /\ pak.exists
    /\ unpackDir # {}
    /\ repacked' = File(pak.data)
    /\ pc' = "repack_dict"
    /\ UNCHANGED <<envVars, unpackDir, backup, result, dict_data, tasks,
                   results, writes, repackVars>>

Max(S) == CHOOSE x \in S : \A y \in S : x >= y

\* the listing sorted the wrong way round
RECURSIVE SortedSeqDesc(_)
SortedSeqDesc(S) ==
    IF S = {} THEN <<>>
    ELSE LET m == Max(S) IN <<m>> \o SortedSeqDesc(S \ {m})

\* sorted(..., key=int(name))
RECURSIVE SortedSeq(_)
SortedSeq(S) ==
    IF S = {} THEN <<>>
    ELSE LET m == Min(S) IN <<m>> \o SortedSeq(S \ {m})

\* dictionary resolution, then the sorted listing of UNPACK_DIR
RepackLoadDict ==
    /\ pc = "repack_dict"
    /\ LET d == ResolveDictionary(dictFile, pak.data)
       IN  IF d.ok
           THEN /\ dict_data' = d.data
                /\ files' = SortedSeq(unpackDir)
                /\ fileIdx' = 1
                /\ success_count' = 0
                /\ pc' = "repack_next"
                /\ result' = result
           ELSE /\ pc' = "done"
                /\ result' = "RepackFailed"
                /\ UNCHANGED <<dict_data, files, fileIdx, success_count>>
    /\ UNCHANGED <<envVars, unpackDir, backup, repacked, tasks, results, writes,
                   plain,
                   segment_start, segment_end, compression_level, outcomes>>

Outcome(file, res, level, s, e, written) ==
    [file |-> file, result |-> res, level |-> level,
     start |-> s, end |-> e, written |-> written]

\* top of the for loop: extract_segment on the current copy; an IndexError is
\* caught by the per-file handler, which prints the error and goes on
RepackNextFile ==
    /\ pc = "repack_next"
    /\ fileIdx <= Len(files)
    /\ LET sequence_number == files[fileIdx]
           seg == extract_segment(repacked.data, sequence_number, MAGIC_NUMBER)
       IN  IF seg.ok
           THEN /\ \E p \in Plaintexts : plain' = p
                /\ segment_start' = seg.start
                /\ segment_end' = seg.end
                /\ compression_level' = 1
                /\ pc' = "repack_try"
                /\ UNCHANGED <<fileIdx, outcomes>>
           ELSE /\ outcomes' = Append(outcomes,
                        Outcome(sequence_number, "SegmentNotFound", 0, 0, 0, 0))
                /\ fileIdx' = fileIdx + 1
                /\ UNCHANGED <<pc, plain, segment_start, segment_end,
                               compression_level>>
    /\ UNCHANGED <<envVars, unpackDir, backup, repacked, result, dict_data,
                   tasks, results, writes, files, success_count>>

\* the patch written into the detected archive itself
PatchTargetOriginal(data) ==
    /\ pak' = File(data)
    /\ repacked' = repacked

\* replace_segment is handed repacked_pak: the file opened 'rb+' is the copy
PatchTarget(data) ==
    /\ repacked' = File(data)
    /\ pak' = pak

\* one pass of the level loop: compress_file, replace_segment; ValueError goes
\* to the next level, the exhausted loop prints the failure, an OSError raised
\* by the write is caught by the per-file handler
RepackTryLevel ==
    /\ pc = "repack_try"
    /\ LET sequence_number == files[fileIdx]
           compressed_data == compress_file(plain, dict_data, compression_level)
           r == replace_segment(repacked.data, segment_start, segment_end,
                                compressed_data)
           patch == PatchBytes(segment_start, segment_end, compressed_data)
       IN  IF ~r.ok
           THEN IF compression_level < MAX_COMPRESSION_LEVEL
                THEN /\ compression_level' = compression_level + 1
                     /\ UNCHANGED <<pak, repacked, pc, fileIdx, outcomes,
                                    success_count>>
                ELSE /\ outcomes' = Append(outcomes,
                            Outcome(sequence_number, "CompressionOverflow",
                                    0, segment_start, segment_end, 0))
                     /\ fileIdx' = fileIdx + 1
                     /\ pc' = "repack_next"
                     /\ UNCHANGED <<pak, repacked, compression_level,
                                    success_count>>
           ELSE \/ /\ PatchTarget(r.data)
                   /\ outcomes' = Append(outcomes,
                          Outcome(sequence_number, "Reimported", compression_level,
                                  segment_start, segment_end, Len(compressed_data)))
                   /\ success_count' = success_count + 1
                   /\ fileIdx' = fileIdx + 1
                   /\ pc' = "repack_next"
                   /\ UNCHANGED compression_level
                \/ \E n \in 0 .. Len(patch) :
                   /\ PatchTarget(WriteAt(repacked.data, segment_start,
                                          SubSeq(patch, 1, n)))
                   /\ outcomes' = Append(outcomes,
                          Outcome(sequence_number, "IOFailure", compression_level,
                                  segment_start, segment_end, n))
                   /\ fileIdx' = fileIdx + 1
                   /\ pc' = "repack_next"
                   /\ UNCHANGED <<compression_level, success_count>>
    /\ UNCHANGED <<dictFile, unpackDir, backup, result, dict_data, tasks, results,
                   writes, files, plain, segment_start, segment_end>>

RepackFinish ==
    /\ pc = "repack_next"
    /\ fileIdx > Len(files)
    /\ pc' = "done"
    /\ result' = "RepackCompleted"
    /\ UNCHANGED <<envVars, unpackDir, backup, repacked, dict_data, tasks,
                   results, writes, repackVars>>

----------------------------------------------------------------------------

Next ==
    \/ UnpackNoPak
    \/ UnpackBackup
    \/ UnpackLoadDict
    \/ \E i \in DOMAIN tasks : StartTask(i)
    \/ \E i \in DOMAIN tasks : DecompressSegment(i)
    \/ CollectResult
    \/ UnpackFinish
    \/ RepackNoPak
    \/ RepackNoFiles
    \/ RepackCopy
    \/ RepackLoadDict
    \/ RepackNextFile
    \/ RepackTryLevel
    \/ RepackFinish

Spec == Init /\ [][Next]_vars

----------------------------------------------------------------------------
(* The unpack operation alone, over a wider set of archives and with an     *)
(* external dictionary present                                              *)

InitUnpack ==
    /\ pak \in {File(d) : d \in IndexBuffers}
    /\ dictFile = [path |-> TRUE, readable |-> TRUE, data |-> <<68, 68>>]
    /\ unpackDir = {}
    /\ backup = NoFile
    /\ repacked = NoFile
    /\ pc = "menu"
    /\ result = "none"
    /\ dict_data = <<>>
    /\ tasks = <<>>
    /\ results = <<>>
    /\ writes = {}
    /\ files = <<>>
    /\ fileIdx = 0
    /\ plain = NoPlain
    /\ segment_start = 0
    /\ segment_end = 0
    /\ compression_level = 0
    /\ outcomes = <<>>
    /\ success_count = 0

NextUnpack ==
    \/ UnpackBackup
    \/ UnpackLoadDict
    \/ \E i \in DOMAIN tasks : StartTask(i)
    \/ \E i \in DOMAIN tasks : DecompressSegment(i)
    \/ CollectResult
    \/ UnpackFinish

SpecUnpack == InitUnpack /\ [][NextUnpack]_vars

----------------------------------------------------------------------------
(* The unpack operation on archives with more segments than the pool has    *)
(* workers                                                                  *)

MaxPoolChunks == 5
PoolChunkSet == {MAGIC_NUMBER, <<65>>}

RECURSIVE PoolChunkSeqs(_)
PoolChunkSeqs(n) ==
    IF n = 0 THEN {<<>>}
    ELSE LET shorter == PoolChunkSeqs(n - 1)
         IN  shorter \cup {s \o c : s \in shorter, c \in PoolChunkSet}

InitPool ==
    /\ pak \in {File(d) : d \in PoolChunkSeqs(MaxPoolChunks)}
    /\ dictFile = [path |-> TRUE, readable |-> TRUE, data |-> <<68, 68>>]
    /\ unpackDir = {}
    /\ backup = NoFile
    /\ repacked = NoFile
    /\ pc = "menu"
    /\ result = "none"
    /\ dict_data = <<>>
    /\ tasks = <<>>
    /\ results = <<>>
    /\ writes = {}
    /\ files = <<>>
    /\ fileIdx = 0
    /\ plain = NoPlain
    /\ segment_start = 0
    /\ segment_end = 0
    /\ compression_level = 0
    /\ outcomes = <<>>
    /\ success_count = 0

SpecPool == InitPool /\ [][NextUnpack]_vars

----------------------------------------------------------------------------
(* Vocabulary of the properties *)

\* offsets at which sub occurs in data, stated without the scan
Occurrences(data, sub) ==
    {i \in 0 .. (Len(data) - Len(sub)) :
        \A j \in 1 .. Len(sub) : data[i + j] = sub[j]}

\* the n-th smallest element of a finite set of integers
RECURSIVE Nth(_, _)
Nth(S, n) == IF n = 1 THEN Min(S) ELSE Nth(S \ {Min(S)}, n - 1)

\* start and end the format gives segment n: its marker, and the next marker
\* or end-of-file
RangeStart(data, n) == Nth(Occurrences(data, MAGIC_NUMBER), n)
RangeEnd(data, n) ==
    IF n < Cardinality(Occurrences(data, MAGIC_NUMBER))
    THEN Nth(Occurrences(data, MAGIC_NUMBER), n + 1)
    ELSE Len(data)

RECURSIVE ConcatData(_, _)
ConcatData(segments, n) ==
    IF n = 0 THEN <<>> ELSE ConcatData(segments, n - 1) \o segments[n][2]

\* the buffers the indexer is run on
Buffers == {pak.data, repacked.data}

InRepackLoop == pc \in {"repack_next", "repack_try"}

LastOutcome == outcomes[Len(outcomes)]

\* the step appended an outcome of this kind
Recorded(kind) ==
    /\ Len(outcomes') = Len(outcomes) + 1
    /\ outcomes'[Len(outcomes')].result = kind

\* the frame of the current edit at level L fits the located range
Fits(L) == Len(compress_file(plain, dict_data, L)) <= segment_end - segment_start

----------------------------------------------------------------------------
(* C1 *)

\* what both scans yield on a buffer with k occurrences of the marker: k
\* segments numbered 1..k, segment n running from the n-th marker to the next
\* marker or end-of-file, so that the ranges are ascending, contiguous and
\* non-overlapping
IndexerRanges(data) ==
    LET k == Cardinality(Occurrences(data, MAGIC_NUMBER))
        segments == split_segments(data, MAGIC_NUMBER)
    IN  /\ Len(segments) = k
        /\ \A n \in 1 .. k :
            /\ segments[n][1] = n
            /\ RangeStart(data, n) < RangeEnd(data, n)
            /\ segments[n][2] = Slice(data, RangeStart(data, n), RangeEnd(data, n))
            /\ extract_segment(data, n, MAGIC_NUMBER) =
                  [ok |-> TRUE, start |-> RangeStart(data, n),
                   end |-> RangeEnd(data, n),
                   data |-> Slice(data, RangeStart(data, n), RangeEnd(data, n))]
        /\ ~extract_segment(data, k + 1, MAGIC_NUMBER).ok

\* C1 as stated: the segments of every buffer are the k marker-delimited
\* ranges and their union is the whole buffer [0, len(data)).
C1_CoversWholeBuffer ==
    \A data \in Buffers :
        /\ IndexerRanges(data)
        /\ ConcatData(split_segments(data, MAGIC_NUMBER),
                      Len(split_segments(data, MAGIC_NUMBER))) = data

\* C1 amended: the segments of every buffer are the k marker-delimited ranges
\* and their union is [offset of the first marker, len(data)); it is empty
\* when the marker does not occur, and the bytes before the first marker
\* belong to no segment.
C1_CoversFromFirstMarker ==
    \A data \in Buffers :
        LET segments == split_segments(data, MAGIC_NUMBER)
            first == find(data, MAGIC_NUMBER, 0)
        IN  /\ IndexerRanges(data)
            /\ ConcatData(segments, Len(segments)) =
                  IF first = -1 THEN <<>> ELSE Slice(data, first, Len(data))

\* an archive with a leading prefix and two markers has been split
C1_Witness ==
    /\ pc = "unpack_tasks"
    /\ Len(tasks) = 2
    /\ find(pak.data, MAGIC_NUMBER, 0) > 0

----------------------------------------------------------------------------
(* C2 *)

\* C2: a step that records a successful patch leaves the encoded bytes at
\* [start, start+len(e)), zeros in [start+len(e), end), and every byte before
\* start and at or after end as it was before the step.
C2_PatchFrame ==
    [][ (pc = "repack_try" /\ Recorded("Reimported")) =>
        LET e == compress_file(plain, dict_data, compression_level)
            old == repacked.data
            new == repacked'.data
        IN  /\ Len(new) = Len(old)
            /\ Slice(new, segment_start, segment_start + Len(e)) = e
            /\ \A i \in (segment_start + Len(e)) .. (segment_end - 1) :
                   new[i + 1] = 0
            /\ \A i \in 0 .. (Len(old) - 1) :
                   (i < segment_start \/ i >= segment_end) => new[i + 1] = old[i + 1]
      ]_vars

\* a patch shorter than its segment has been written and padded
C2_Witness ==
    /\ outcomes # <<>>
    /\ LastOutcome.result = "Reimported"
    /\ LastOutcome.written < LastOutcome.end - LastOutcome.start
    /\ repacked.data[LastOutcome.end] = 0
    /\ pak.data[LastOutcome.end] # 0

----------------------------------------------------------------------------
(* C3 *)

\* C3: the search is at level L only after every level below L came out
\* oversize; an oversize level below 22 moves to the next level and writes
\* nothing; the first level that fits is the one written and recorded, and
\* nothing is written at a level that does not fit.
C3_LevelSearch ==
    [][ pc = "repack_try" =>
        LET e == compress_file(plain, dict_data, compression_level)
        IN  /\ compression_level \in 1 .. MAX_COMPRESSION_LEVEL
            /\ \A L \in 1 .. (compression_level - 1) : ~Fits(L)
            /\ (~Fits(compression_level)
                  /\ compression_level < MAX_COMPRESSION_LEVEL) =>
                   /\ pc' = "repack_try"
                   /\ compression_level' = compression_level + 1
                   /\ UNCHANGED <<repacked, outcomes, fileIdx>>
            /\ Fits(compression_level) =>
                   /\ Recorded("Reimported") \/ Recorded("IOFailure")
                   /\ outcomes'[Len(outcomes')].level = compression_level
            /\ Recorded("Reimported") =>
                   /\ Fits(compression_level)
                   /\ Len(e) <= segment_end - segment_start
                   /\ Slice(repacked'.data, segment_start,
                            segment_start + Len(e)) = e
            /\ repacked' # repacked => Fits(compression_level)
      ]_vars

\* an edit was accepted at the last level after 21 oversize attempts
C3_Witness ==
    \E i \in DOMAIN outcomes :
        /\ outcomes[i].result = "Reimported"
        /\ outcomes[i].level = MAX_COMPRESSION_LEVEL

----------------------------------------------------------------------------
(* C4 *)

\* C4: while the current edit is oversize at every level 1..22, no step
\* changes the archive copy; the pass at level 22 records CompressionOverflow
\* for that edit and the loop moves to the next edit.
C4_Overflow ==
    [][ (pc = "repack_try" /\ \A L \in 1 .. MAX_COMPRESSION_LEVEL : ~Fits(L)) =>
        /\ repacked' = repacked
        /\ IF compression_level < MAX_COMPRESSION_LEVEL
           THEN /\ pc' = "repack_try"
                /\ compression_level' = compression_level + 1
                /\ outcomes' = outcomes
           ELSE /\ Recorded("CompressionOverflow")
                /\ outcomes'[Len(outcomes')].file = files[fileIdx]
                /\ pc' = "repack_next"
                /\ fileIdx' = fileIdx + 1
      ]_vars

\* an overflow was recorded for an existing segment and a later edit was
\* then patched
C4_Witness ==
    \E i, j \in DOMAIN outcomes :
        /\ i < j
        /\ outcomes[i].result = "CompressionOverflow"
        /\ outcomes[i].end > outcomes[i].start
        /\ outcomes[j].result = "Reimported"

----------------------------------------------------------------------------
(* C5 *)

\* C5: while the loop runs and no write has failed, indexing the current
\* archive copy gives the boundaries that indexing the original archive
\* gives, and every patch so far was written into the original range of its
\* sequence number.
C5_StableTable ==
    (InRepackLoop /\ \A i \in DOMAIN outcomes : outcomes[i].result # "IOFailure") =>
        /\ ScanExtract(repacked.data, MAGIC_NUMBER, 0, <<>>) =
              ScanExtract(pak.data, MAGIC_NUMBER, 0, <<>>)
        /\ \A i \in DOMAIN outcomes :
              outcomes[i].result = "Reimported" =>
                  /\ outcomes[i].start = RangeStart(pak.data, outcomes[i].file)
                  /\ outcomes[i].end = RangeEnd(pak.data, outcomes[i].file)

----------------------------------------------------------------------------
(* C6 *)

\* C6: an edit whose sequence number is below 1 or above the number of
\* segments of the current copy is located nowhere (extract_segment returns
\* no range and no bytes), the step records SegmentNotFound for it, changes
\* no byte of the copy, and the loop moves to the next edit.
C6_SegmentNotFound ==
    [][ ( /\ pc = "repack_next"
          /\ fileIdx <= Len(files)
          /\ \/ files[fileIdx] < 1
             \/ files[fileIdx] >
                    Cardinality(Occurrences(repacked.data, MAGIC_NUMBER)) ) =>
        /\ ~extract_segment(repacked.data, files[fileIdx], MAGIC_NUMBER).ok
        /\ Recorded("SegmentNotFound")
        /\ outcomes'[Len(outcomes')].file = files[fileIdx]
        /\ repacked' = repacked
        /\ pc' = "repack_next"
        /\ fileIdx' = fileIdx + 1
      ]_vars

\* sequence number 0 was refused and a later edit was then patched
C6_Witness ==
    \E i, j \in DOMAIN outcomes :
        /\ i < j
        /\ outcomes[i].result = "SegmentNotFound"
        /\ outcomes[i].file = 0
        /\ outcomes[j].result = "Reimported"

----------------------------------------------------------------------------
(* C7 *)

\* the dictionary the resolver is to yield
ExpectedDictionary ==
    LET marks == Occurrences(pak.data, DICT_START_HEX)
    IN  IF dictFile.path /\ dictFile.readable /\ dictFile.data # <<>>
        THEN [ok |-> TRUE, data |-> dictFile.data]
        ELSE IF marks # {}
        THEN [ok |-> TRUE, data |-> Slice(pak.data, Min(marks), Len(pak.data))]
        ELSE [ok |-> FALSE, data |-> <<>>]

DictionaryResolved == pc \in {"unpack_tasks", "repack_next", "repack_try"}
DictionaryNotFound == pc = "done" /\ result \in {"UnpackFailed", "RepackFailed"}

\* C7: once resolution is over, the dictionary in use is the non-empty
\* external one, else the archive's suffix from the first embedded marker;
\* the operation has failed exactly when neither exists.
C7_Resolution ==
    /\ DictionaryResolved =>
          (ExpectedDictionary.ok /\ dict_data = ExpectedDictionary.data)
    /\ DictionaryNotFound => ~ExpectedDictionary.ok

----------------------------------------------------------------------------
(* C8 *)

\* C8: the archive copy has the length of the archive in every state in
\* which it exists.
C8_LengthConstant ==
    repacked.exists => Len(repacked.data) = Len(pak.data)

\* the last segment of the archive was patched with padding, after an
\* earlier edit had been handled
C8_Witness ==
    /\ Len(outcomes) >= 2
    /\ LastOutcome.result = "Reimported"
    /\ LastOutcome.end = Len(pak.data)
    /\ LastOutcome.written < LastOutcome.end - LastOutcome.start

----------------------------------------------------------------------------
(* C9 *)

\* C9: an I/O failure of a patch write ends the run: it is the last outcome
\* recorded, no later edit is located or encoded, and the run does not end
\* with the completion panel.
C9_IOFailureFatal ==
    \A i \in DOMAIN outcomes :
        outcomes[i].result = "IOFailure" =>
            /\ i = Len(outcomes)
            /\ pc # "repack_try"
            /\ result # "RepackCompleted"

----------------------------------------------------------------------------
(* C10 *)

\* C10: when the operation has ended for want of the archive or of a
\* dictionary, it has created no backup copy, no archive copy and no
\* plaintext artifact.
C10_AbortBeforeTouch ==
    (pc = "done" /\ result \in {"UnpackNoPak", "RepackNoPak",
                                "UnpackFailed", "RepackFailed"}) =>
        /\ ~backup.exists
        /\ ~repacked.exists
        /\ tasks = <<>>

----------------------------------------------------------------------------
(* C11 *)

\* C11: an archive without the marker has an empty segment list, and an
\* unpack of it does not end with the success panel.
C11_NoMarkerIsUsageError ==
    (pak.exists /\ Occurrences(pak.data, MAGIC_NUMBER) = {}) =>
        /\ split_segments(pak.data, MAGIC_NUMBER) = <<>>
        /\ ~(pc = "done" /\ result = "UnpackCompleted")

----------------------------------------------------------------------------
(* C12 *)

Terminal == {"decompressed", "error"}

\* C12: at most MAX_WORKERS tasks run at once; the result lines are one per
\* segment, the line of segment j telling how its own task ended, and the
\* finished unpack has a line for every segment; a task that has ended stays
\* as it ended, and a step in which one task fails changes no other task and
\* does not end the operation; every artifact written is the one named by its
\* task's number padded to 8 digits plus '.dat', so no two tasks share a path.
C12_PoolIsolation ==
    /\ [](/\ Cardinality(Running) <= MAX_WORKERS
          /\ \A j \in DOMAIN results :
                /\ results[j].index = j
                /\ results[j].kind = tasks[j]
                /\ tasks[j] \in Terminal
          /\ (pc = "done" /\ result = "UnpackCompleted") =>
                Len(results) = Cardinality(Occurrences(pak.data, MAGIC_NUMBER))
          /\ tasks # <<>> => result # "UnpackFailed"
          /\ {w.task : w \in writes} =
                {i \in DOMAIN tasks : tasks[i] = "decompressed"}
          /\ \A w \in writes :
                /\ Len(w.path.stem) = 8
                /\ w.path.ext = "dat"
                /\ IntOfDigits(w.path.stem) = w.task
          /\ \A v, w \in writes : v.path = w.path => v.task = w.task)
    /\ [][ \A i \in DOMAIN tasks :
              /\ tasks[i] \in Terminal => tasks'[i] = tasks[i]
              /\ (tasks[i] # "error" /\ tasks'[i] = "error") =>
                    /\ \A j \in DOMAIN tasks \ {i} : tasks'[j] = tasks[j]
                    /\ pc' = "unpack_tasks"
                    /\ UNCHANGED <<writes, unpackDir, results>>
       ]_vars

\* five segments were unpacked, the second failed and the others were written
C12_Witness ==
    /\ pc = "done"
    /\ result = "UnpackCompleted"
    /\ Len(tasks) = 5
    /\ tasks[2] = "error"
    /\ \A i \in {1, 3, 4, 5} : tasks[i] = "decompressed"
    /\ unpackDir = {1, 3, 4, 5}

----------------------------------------------------------------------------
(* C13 *)

RepackCompleted == pc = "done" /\ result = "RepackCompleted"

\* C13: the edits are the files of UNPACK_DIR in ascending order of their
\* numbers; the loop has recorded exactly one outcome for each edit it has
\* passed, in that order, and for every edit once the run has completed; an
\* edit is at one of the levels 1..22; the success count is the number of
\* edits patched. Every step of the loop starts the search of the current
\* edit at level 1, raises its level by one, or records its outcome and moves
\* to the next edit, and the loop position is an edit or one past the last
\* (where the run completes): so an edit takes at most 22 encode attempts and
\* the run ends.
C13_RepackRun ==
    /\ []((InRepackLoop \/ RepackCompleted) =>
            /\ \A i, j \in DOMAIN files : i < j => files[i] < files[j]
            /\ {files[i] : i \in DOMAIN files} = unpackDir
            /\ Len(outcomes) = fileIdx - 1
            /\ \A i \in DOMAIN outcomes : outcomes[i].file = files[i]
            /\ pc = "repack_try" =>
                  /\ compression_level \in 1 .. MAX_COMPRESSION_LEVEL
                  /\ fileIdx \in DOMAIN files
            /\ success_count =
                  Cardinality({i \in DOMAIN outcomes :
                                  outcomes[i].result = "Reimported"})
            /\ RepackCompleted => Len(outcomes) = Len(files)
            /\ fileIdx \in 1 .. (Len(files) + 1))
    /\ [][ InRepackLoop =>
            \/ /\ pc = "repack_next" /\ pc' = "repack_try"
               /\ compression_level' = 1
               /\ UNCHANGED <<fileIdx, outcomes, success_count>>
            \/ /\ pc = "repack_try" /\ pc' = "repack_try"
               /\ compression_level' = compression_level + 1
               /\ UNCHANGED <<fileIdx, outcomes, success_count>>
            \/ /\ pc' = "repack_next"
               /\ fileIdx' = fileIdx + 1
               /\ Len(outcomes') = Len(outcomes) + 1
            \/ /\ pc = "repack_next" /\ fileIdx = Len(files) + 1
               /\ RepackCompleted'
               /\ UNCHANGED <<fileIdx, outcomes, success_count>>
       ]_vars

\* a run over a missing edit and an edit accepted at level 22 has completed
C13_Witness ==
    /\ RepackCompleted
    /\ Len(outcomes) = 2
    /\ outcomes[1].result = "SegmentNotFound"
    /\ outcomes[2].result = "Reimported"
    /\ outcomes[2].level = MAX_COMPRESSION_LEVEL
    /\ success_count = 1

----------------------------------------------------------------------------
(* C14 *)

\* C14: no step changes the original archive, and a step that records a
\* patch changes the copy in the repack directory as replace_segment says.
C14_OriginalPreserved ==
    [][ /\ pak' = pak
        /\ (pc = "repack_try" /\ Recorded("Reimported")) =>
              repacked'.data =
                    WriteAt(repacked.data, segment_start,
                            PatchBytes(segment_start, segment_end,
                                       compress_file(plain, dict_data,
                                                     compression_level)))
      ]_vars

\* the copy has been patched and differs from the archive
C14_Witness ==
    /\ RepackCompleted
    /\ success_count >= 1
    /\ repacked.data # pak.data
    /\ Len(repacked.data) = Len(pak.data)

----------------------------------------------------------------------------
(* C16 *)

----------------------------------------------------------------------------
(* The repack operation with no dictionary file in the Dictionary         *)
(* directory: the dictionary is the one embedded in the archive            *)

InitEmbedded ==
    /\ pak \in {NoFile} \cup {File(d) : d \in Archives}
    /\ dictFile = NoDict
    /\ unpackDir \in {S \in SUBSET SeqNums : Cardinality(S) <= MaxFiles}
    /\ backup = NoFile
    /\ repacked = NoFile
    /\ pc = "menu"
    /\ result = "none"
    /\ dict_data = <<>>
    /\ tasks = <<>>
    /\ results = <<>>
    /\ writes = {}
    /\ files = <<>>
    /\ fileIdx = 0
    /\ plain = NoPlain
    /\ segment_start = 0
    /\ segment_end = 0
    /\ compression_level = 0
    /\ outcomes = <<>>
    /\ success_count = 0

NextRepack ==
    \/ RepackNoPak
    \/ RepackNoFiles
    \/ RepackCopy
    \/ RepackLoadDict
    \/ RepackNextFile
    \/ RepackTryLevel
    \/ RepackFinish

SpecEmbedded == InitEmbedded /\ [][NextRepack]_vars

----------------------------------------------------------------------------
(* C17 *)

\* the dictionary marker first occurs after the last magic marker
EmbeddedAfterLastMagic(data) ==
    /\ Occurrences(data, MAGIC_NUMBER) # {}
    /\ find(data, DICT_START_HEX, 0) > Max(Occurrences(data, MAGIC_NUMBER))

\* the last write to the copy was a successful patch of the last segment of
\* such an archive
LastSegmentPatched ==
    /\ outcomes # <<>>
    /\ LastOutcome.result = "Reimported"
    /\ EmbeddedAfterLastMagic(pak.data)
    /\ LastOutcome.start = Max(Occurrences(pak.data, MAGIC_NUMBER))
    /\ LastOutcome.end = Len(pak.data)

\* the patched range holds the marker and payload, and every byte of it is
\* now a byte of the frame or a zero
LastSegmentOverwritten ==
    LET d == find(pak.data, DICT_START_HEX, 0)
        o == LastOutcome
    IN  /\ o.start < d
        /\ d + Len(DICT_START_HEX) <= o.end
        /\ extract_dictionary_from_pak(pak.data, DICT_START_HEX) =
              [ok |-> TRUE, data |-> Slice(pak.data, d, o.end)]
        /\ Len(repacked.data) = Len(pak.data)
        /\ \A i \in (o.start + o.written + 1) .. o.end : repacked.data[i] = 0

\* C17 as stated: after a successful patch of the last segment of an archive
\* whose dictionary marker lies after its last magic marker, the range
\* holding marker and payload is overwritten with frame bytes or zeros, and the
\* dictionary extracted from the copy is not the one extracted from the
\* archive.
C17_DictionaryChanged ==
    LastSegmentPatched =>
        /\ LastSegmentOverwritten
        /\ extract_dictionary_from_pak(repacked.data, DICT_START_HEX) #
              extract_dictionary_from_pak(pak.data, DICT_START_HEX)

\* C17 amended: the range is overwritten as stated, and the dictionary
\* extracted from the copy is not the one extracted from the archive whenever
\* the frame ends before the end of the dictionary marker.
C17_DictionaryChangedByShortFrame ==
    LastSegmentPatched =>
        /\ LastSegmentOverwritten
        /\ (LastOutcome.start + LastOutcome.written <
                find(pak.data, DICT_START_HEX, 0) + Len(DICT_START_HEX)) =>
              extract_dictionary_from_pak(repacked.data, DICT_START_HEX) #
                  extract_dictionary_from_pak(pak.data, DICT_START_HEX)

\* a frame that ends inside the marker has been written over the last segment
\* and the copy no longer holds a dictionary
C17_Witness ==
    /\ LastSegmentPatched
    /\ LastOutcome.start + LastOutcome.written > find(pak.data, DICT_START_HEX, 0)
    /\ LastOutcome.start + LastOutcome.written <
          find(pak.data, DICT_START_HEX, 0) + Len(DICT_START_HEX)
    /\ ~extract_dictionary_from_pak(repacked.data, DICT_START_HEX).ok

====
